---------------------------- MODULE Spec2Model ----------------------------
(***************************************************************************)
(* Model of the maman crawler (src/src/maman/mod.rs): Spider::crawl and    *)
(* the Page token sink it drives.                                          *)
(*                                                                         *)
(* A URL string (an href value, the seed argument, the output of           *)
(* Url::to_string) is a record of its syntactic parts:                     *)
(*     scheme ":" "//" host ":" port path "#" fragment                     *)
(* with "" for an absent scheme or path and <<>> for an absent host, port  *)
(* or fragment.  A parsed Url is a record of the parts the url crate       *)
(* keeps.  Optional values are sequences: <<>> is None, <<x>> is Some(x).  *)
(* Paths are absolute ("/a") or empty; queries are left out.               *)
(*                                                                         *)
(* crawl() is followed position by position: the seed request, each token  *)
(* the tokenizer hands to Page::process_token, the end of the document     *)
(* (visit_page and the publish), each iteration of the while loop.  The    *)
(* HTTP client, the document served and the queue are the environment:     *)
(* their answers are chosen freely at each step.                           *)
(*                                                                         *)
(* The crawl of every seed meets two URLs: https://site.test/ and /a link  *)
(* to each other, https://blog.test/a#frag names its fragment-less self,   *)
(* http://1.1.1.1/a names http://2.2.2.2/a.                                *)
(***************************************************************************)
EXTENDS Naturals, Sequences, FiniteSets, TLC

VARIABLES
    base_url,        \* Spider.base_url: the seed string
    visited_urls,    \* Spider.visited_urls: Vec<Url>
    unvisited_urls,  \* Spider.unvisited_urls: Vec<Url>, popped from the end
    pc,              \* position of crawl(): "idle", "read_page", "loop", "done", "panicked"
    page,            \* the Page owned by the tokenizer while pc = "read_page"
    ntok,            \* number of tokens the tokenizer has handed to the page
    requests,        \* log of load_url calls and what became of the response
    publishes,       \* log of send_to_redis calls and their results
    graph,           \* history: the link graph served so far (page url -> eligible links)
    e2e,             \* history: the fetcher has behaved as the end-to-end scenario's
    pushed,          \* history: every URL add_unvisited_url was ever called with
    arg,             \* input of the function under check (FilterSpec, JobSpec);
                     \* the first of two crawls (TwoRunSpec)
    result           \* what that function returned; the second of two crawls

vars == <<base_url, visited_urls, unvisited_urls, pc, page, ntok,
          requests, publishes, graph, e2e, pushed, arg, result>>

(***************************************************************************)
(* Bounds of the model.                                                    *)
(***************************************************************************)
\* most tokens one document yields
MaxTokens == 3

None == <<>>
Some(x) == <<x>>

(***************************************************************************)
(* URL strings.                                                            *)
(***************************************************************************)
Str(scheme, host, port, path, fragment) ==
    [scheme |-> scheme, host |-> host, port |-> port, path |-> path,
     fragment |-> fragment]

\* "/a"
HrefA == Str("", None, None, "/a", None)
\* "https://other.test/b"
HrefOther == Str("https", Some("other.test"), None, "/b", None)
\* "#frag"
HrefFrag == Str("", None, None, "", Some("frag"))
\* "https://site.test" (no path: the parser supplies "/")
HrefRoot == Str("https", Some("site.test"), None, "", None)
\* "mailto:x"
HrefMailto == Str("mailto", None, None, "x", None)
\* "http://" (a scheme and an empty host)
HrefEmptyHost == Str("http", Some(""), None, "", None)
\* "//" (scheme-relative with an empty host)
HrefSlashes == Str("", Some(""), None, "", None)
\* "http://2.2.2.2/a"
HrefIp2 == Str("http", Some("2.2.2.2"), None, "/a", None)

Hrefs == {HrefA, HrefOther, HrefFrag, HrefRoot, HrefMailto, HrefEmptyHost,
          HrefSlashes, HrefIp2}

\* "https://site.test/"
SeedSite == Str("https", Some("site.test"), None, "/", None)
\* "https://blog.test/a#frag"
SeedBlogFrag == Str("https", Some("blog.test"), None, "/a", Some("frag"))
\* "http://1.1.1.1/a"
SeedIp == Str("http", Some("1.1.1.1"), None, "/a", None)

\* the strings main() may hand to Spider::new
Seeds == {SeedSite, SeedBlogFrag, SeedIp, HrefA, HrefMailto}

\* host strings that are dotted-quad IPv4 literals
Ipv4Literals == {"1.1.1.1", "2.2.2.2"}

(***************************************************************************)
(* The url crate, as far as the crawler uses it.                           *)
(***************************************************************************)
Url(scheme, host, port, path, fragment) ==
    [scheme |-> scheme, host |-> host, port |-> port, path |-> path,
     fragment |-> fragment]

NoUrl == Url("", None, None, "", None)

Ok(u) == [ok |-> TRUE, val |-> u, err |-> ""]
Err(e) == [ok |-> FALSE, val |-> NoUrl, err |-> e]

\* schemes the parser treats as special (they take a host and a "/" path)
SpecialSchemes == {"http", "https", "ftp"}

\* Host::parse: a host string is an IPv4 address or a domain name
HostParse(name) ==
    IF name \in Ipv4Literals
    THEN [kind |-> "ipv4", name |-> name]
    ELSE [kind |-> "domain", name |-> name]

\* the parser drops a port that is the scheme's default
PortParse(scheme, port) ==
    IF \/ scheme = "http" /\ port = Some(80)
       \/ scheme = "https" /\ port = Some(443)
       \/ scheme = "ftp" /\ port = Some(21)
    THEN None
    ELSE port

\* the parser's authority and path states for a special scheme
ParseAuthority(scheme, s) ==
    IF s.host = None \/ s.host = Some("")
    THEN Err("EmptyHost")
    ELSE Ok(Url(scheme, Some(HostParse(s.host[1])), PortParse(scheme, s.port),
                IF s.path = "" THEN "/" ELSE s.path, s.fragment))

\* Url::parse(s): no base URL
UrlParse(s) ==
    IF s.scheme = ""
    THEN Err("RelativeUrlWithoutBase")
    ELSE IF s.scheme \in SpecialSchemes
         THEN ParseAuthority(s.scheme, s)
         ELSE Ok(Url(s.scheme, None, None, s.path, s.fragment))

\* base.join(s): Url::parse with a base URL
UrlJoin(base, s) ==
    IF s.scheme # ""
    THEN UrlParse(s)
    ELSE IF s.host = None /\ s.path = "" /\ s.fragment # None
         THEN Ok([base EXCEPT !.fragment = s.fragment])
         ELSE IF base.scheme \notin SpecialSchemes
              THEN Err("RelativeUrlWithCannotBeABaseBase")
              ELSE IF s.host # None
                   THEN ParseAuthority(base.scheme, s)
                   ELSE Ok(Url(base.scheme, base.host, base.port,
                               IF s.path = "" THEN base.path ELSE s.path,
                               s.fragment))

\* Url::to_string / Display: the serialization of a parsed Url
UrlToString(u) ==
    Str(u.scheme,
        IF u.host = None THEN None ELSE Some(u.host[1].name),
        u.port, u.path, u.fragment)

\* Url::domain(): the host when it is a domain name, None for an IP address
UrlDomain(u) ==
    IF u.host # None /\ u.host[1].kind = "domain"
    THEN Some(u.host[1].name)
    ELSE None

\* Url::host_str(): the host as a string, whatever its kind
UrlHostStr(u) == IF u.host = None THEN None ELSE Some(u.host[1].name)

\* Url::set_fragment(None)
SetFragmentNone(u) == [u EXCEPT !.fragment = None]


(***************************************************************************)
(* Page: the token sink.                                                   *)
(***************************************************************************)
\* Page::new: the url and an empty outbound list (document, headers and jid
\* do not influence the crawl)
PageNew(url) == [url |-> url, urls |-> <<>>]

NoPage == PageNew(NoUrl)

\* the value of an Option<Url>-returning method, or the panic it ends in
Returns(opt) == [panic |-> FALSE, val |-> opt]
Panics == [panic |-> TRUE, val |-> None]

\* Page::parsed_url: the join is unwrapped
parsed_url(pg, s) ==
    LET r == UrlParse(s) IN
    IF r.ok
    THEN Returns(Some(r.val))
    ELSE IF r.err = "RelativeUrlWithoutBase"
         THEN LET j == UrlJoin(pg.url, s) IN
              IF j.ok THEN Returns(Some(j.val)) ELSE Panics
         ELSE Returns(None)

\* as parsed_url_without_fragment, with the set_fragment(None) call left out
parsed_url_with_fragment(pg, s) == parsed_url(pg, s)

\* Page::parsed_url_without_fragment
parsed_url_without_fragment(pg, s) ==
    LET r == parsed_url(pg, s) IN
    IF r.panic \/ r.val = None
    THEN r
    ELSE Returns(Some(SetFragmentNone(r.val[1])))

\* Page::url_eq
url_eq(pg, u) == pg.url = u

\* as domain_eq, comparing the port along with the domain
domain_eq_with_port(pg, u) ==
    UrlDomain(pg.url) = UrlDomain(u) /\ pg.url.port = u.port

\* Page::domain_eq
domain_eq(pg, u) == UrlDomain(pg.url) = UrlDomain(u)

\* Page::can_enqueue
can_enqueue(pg, s) ==
    LET r == parsed_url_without_fragment(pg, s) IN
    IF r.panic \/ r.val = None
    THEN r
    ELSE LET u == r.val[1] IN
         IF u.scheme \in {"http", "https"}
         THEN IF ~url_eq(pg, u) /\ domain_eq(pg, u)
              THEN Returns(Some(u))
              ELSE Returns(None)
         ELSE Returns(None)

\* tokens the tokenizer hands to the sink: a tag with one attribute, or text
Tag(name, attr, value) ==
    [kind |-> "tag", name |-> name, attr |-> attr, value |-> value]

Anchor(s) == Tag("a", "href", s)

CharacterToken == [kind |-> "text", name |-> "", attr |-> "", value |-> HrefA]

Tokens ==
    {Anchor(s) : s \in Hrefs}
        \cup {Tag("link", "href", HrefA), Tag("a", "name", HrefA), CharacterToken}

\* Page::process_token: the page after the token, or the panic
process_token(pg, token) ==
    IF token.kind = "tag" /\ token.name = "a" /\ token.attr = "href"
    THEN LET r == can_enqueue(pg, token.value) IN
         IF r.panic
         THEN [panic |-> TRUE, page |-> pg]
         ELSE IF r.val # None
              THEN [panic |-> FALSE,
                    page |-> [pg EXCEPT !.urls = Append(@, r.val[1])]]
              ELSE [panic |-> FALSE, page |-> pg]
    ELSE [panic |-> FALSE, page |-> pg]

(***************************************************************************)
(* History of the environment: the link graph the fetcher has served and   *)
(* whether it has behaved as the end-to-end scenario's synthetic fetcher.  *)
(* The graph is built from the Link Filter as the specification words it   *)
(* (resolve, strip the fragment, then scheme, self-reference on            *)
(* fragment-stripped URLs, and domain as equality of the host component),  *)
(* not from can_enqueue; neither variable is read by the crawler.          *)
(***************************************************************************)
\* the URL an href names on a page: resolved against the page, fragment dropped
Candidate(p, s) ==
    LET r == IF s.scheme # "" THEN UrlParse(s) ELSE UrlJoin(p, s) IN
    IF r.ok THEN Some(SetFragmentNone(r.val)) ELSE None

\* the Link Filter: the scheme is http or https, the candidate is not the
\* page itself (with or without a fragment), and the two have the same
\* host component, whatever kind of host it is
Eligible(p, c) ==
    /\ c.scheme \in {"http", "https"}
    /\ c # SetFragmentNone(p)
    /\ UrlHostStr(c) = UrlHostStr(p)

\* the edges a token adds to the link graph of page p
Links(p, token) ==
    IF token.kind = "tag" /\ token.name = "a" /\ token.attr = "href"
    THEN {<<p, c[1]>> : c \in {x \in {Candidate(p, token.value)} :
                                  x # None /\ Eligible(p, x[1])}}
    ELSE {}

\* seed body of the end-to-end scenario: /a, https://other.test/b, #frag
E2EDoc == <<Anchor(HrefA), Anchor(HrefOther), Anchor(HrefFrag)>>

E2EBody(u) == IF UrlToString(u) = SeedSite THEN E2EDoc ELSE <<>>

(***************************************************************************)
(* Spider.                                                                 *)
(***************************************************************************)
\* arg and result while crawl() runs: no function is under check
NoArg == <<>>
NoResult == <<>>

\* Spider::new
Init ==
    /\ base_url \in Seeds
    /\ visited_urls = <<>>
    /\ unvisited_urls = <<>>
    /\ pc = "idle"
    /\ page = NoPage
    /\ ntok = 0
    /\ requests = <<>>
    /\ publishes = <<>>
    /\ graph = {}
    /\ e2e = (base_url = SeedSite)
    /\ pushed = {}
    /\ arg = NoArg
    /\ result = NoResult

\* as is_visited, looking at the first visited URL only
is_visited_first_only(url) == visited_urls # <<>> /\ visited_urls[1] = url

\* as is_visited, with any visited URL of the same host counting
is_visited_same_host(url) ==
    \E i \in DOMAIN visited_urls : UrlHostStr(visited_urls[i]) = UrlHostStr(url)

\* Spider::is_visited
is_visited(url) == \E i \in DOMAIN visited_urls : visited_urls[i] = url

\* Spider::add_visited_url
add_visited_url(url) == visited_urls' = Append(visited_urls, url)

\* as add_unvisited_urls, with URLs already on the stack or already visited
\* left out
add_unvisited_urls_new_only(stack, urls) ==
    stack \o SelectSeq(urls, LAMBDA u :
                 /\ ~\E i \in DOMAIN stack : stack[i] = u
                 /\ ~\E i \in DOMAIN visited_urls : visited_urls[i] = u)

\* the loop of add_unvisited_url calls in visit_page
add_unvisited_urls(stack, urls) == stack \o urls

\* Spider::load_url: what the HTTP client may answer for a URL string;
\* "err" is None, the others are Some(response) with a body that is or is
\* not valid UTF-8
load_url(s) ==
    LET r == UrlParse(s) IN
    IF r.ok /\ r.val.scheme \in {"http", "https"}
    THEN {"utf8", "not_utf8", "err"}
    ELSE {"err"}

\* Spider::send_to_redis: the page is handed to the queue, which may fail
send_to_redis(pg, ok) ==
    publishes' = Append(publishes, [url |-> pg.url, ok |-> ok])

\* as visit, with a body that cannot be decoded read as an empty document
visit_undecodable_as_empty(page_url, response) ==
    LET r == UrlParse(page_url) IN
    IF r.ok
    THEN /\ page' = PageNew(r.val)
         /\ pc' = "read_page"
    ELSE /\ page' = NoPage
         /\ pc' = "loop"

\* Spider::visit up to the tokenizer: read_response parses the page URL,
\* reads the body and builds the Page that read_page feeds the document to
visit(page_url, response) ==
    LET r == UrlParse(page_url) IN
    IF r.ok /\ response = "utf8"
    THEN /\ page' = PageNew(r.val)
         /\ pc' = "read_page"
    ELSE /\ page' = NoPage
         /\ pc' = "loop"

\* as visit_page, with a page that has no outbound link not sent to the queue
visit_page_publish_if_links(pg, stack, redis_ok, stdout_ok, next) ==
    /\ add_visited_url(pg.url)
    /\ unvisited_urls' = add_unvisited_urls(stack, pg.urls)
    /\ IF pg.urls # <<>>
       THEN /\ send_to_redis(pg, redis_ok)
            /\ pc' = IF redis_ok \/ stdout_ok THEN next ELSE "panicked"
       ELSE /\ publishes' = publishes
            /\ pc' = next

\* Spider::visit_page: the pushes, the publish and, when the publish failed,
\* the println! of the error, which panics when standard output cannot be
\* written; otherwise the call returns and crawl() is at the position next
visit_page(pg, stack, redis_ok, stdout_ok, next) ==
    /\ add_visited_url(pg.url)
    /\ unvisited_urls' = add_unvisited_urls(stack, pg.urls)
    /\ send_to_redis(pg, redis_ok)
    /\ pc' = IF redis_ok \/ stdout_ok THEN next ELSE "panicked"

\* as Crawl, with the while loop entered whether or not the seed was loaded
Crawl_loop_without_seed ==
    /\ pc = "idle"
    /\ \E response \in load_url(base_url) :
          /\ requests' = Append(requests, [url |-> base_url, outcome |-> response])
          /\ e2e' = (e2e /\ response = "utf8")
          /\ IF response = "err"
             THEN /\ pc' = "loop"
                  /\ page' = NoPage
             ELSE visit(base_url, response)
    /\ ntok' = 0
    /\ UNCHANGED <<base_url, visited_urls, unvisited_urls, publishes, graph,
                   pushed, arg, result>>

\* crawl(), first half: the seed is loaded and, on a response, visited
Crawl ==
    /\ pc = "idle"
    /\ \E response \in load_url(base_url) :
          /\ requests' = Append(requests, [url |-> base_url, outcome |-> response])
          /\ e2e' = (e2e /\ response = "utf8")
          /\ IF response = "err"
             THEN /\ pc' = "done"
                  /\ page' = NoPage
             ELSE visit(base_url, response)
    /\ ntok' = 0
    /\ UNCHANGED <<base_url, visited_urls, unvisited_urls, publishes, graph,
                   pushed, arg, result>>

\* the tokenizer hands the page one token of the document
Tokenize(token) ==
    /\ pc = "read_page"
    /\ ntok < MaxTokens
    /\ LET r == process_token(page, token) IN
       IF r.panic
       THEN /\ pc' = "panicked"
            /\ page' = NoPage
            /\ graph' = graph
       ELSE /\ pc' = "read_page"
            /\ page' = r.page
            /\ graph' = graph \cup Links(page.url, token)
    /\ e2e' = (e2e /\ ntok < Len(E2EBody(page.url))
                   /\ token = E2EBody(page.url)[ntok + 1])
    /\ ntok' = ntok + 1
    /\ UNCHANGED <<base_url, visited_urls, unvisited_urls, requests, publishes,
                   pushed, arg, result>>

\* Tokenizer::feed: the next token of the document, whatever it is
ProcessToken == \E token \in Tokens : Tokenize(token)

\* the document ends: read_response returns the page and visit_page runs
EndOfDocument ==
    /\ pc = "read_page"
    /\ \E redis_ok \in BOOLEAN, stdout_ok \in BOOLEAN :
          visit_page(page, unvisited_urls, redis_ok, stdout_ok, "loop")
    /\ page' = NoPage
    /\ ntok' = 0
    /\ e2e' = (e2e /\ ntok = Len(E2EBody(page.url)))
    /\ pushed' = pushed \cup {unvisited_urls'[i] : i \in DOMAIN unvisited_urls'}
    /\ UNCHANGED <<base_url, requests, graph, arg, result>>

\* as Pop, with the oldest element of unvisited taken instead of the newest
Pop_fifo ==
    /\ pc = "loop"
    /\ unvisited_urls # <<>>
    /\ LET url == unvisited_urls[1]
           url_ser == UrlToString(url)
       IN  /\ unvisited_urls' = SubSeq(unvisited_urls, 2, Len(unvisited_urls))
           /\ IF ~is_visited(url)
              THEN \E response \in load_url(url_ser) :
                      /\ requests' = Append(requests,
                                            [url |-> url_ser, outcome |-> response])
                      /\ e2e' = (e2e /\ response = "utf8")
                      /\ IF response = "err"
                         THEN /\ pc' = "loop"
                              /\ page' = NoPage
                         ELSE visit(url_ser, response)
              ELSE UNCHANGED <<requests, e2e, pc, page>>
    /\ ntok' = 0
    /\ UNCHANGED <<base_url, visited_urls, publishes, graph, pushed, arg, result>>

\* one iteration of the while loop of crawl(), up to the tokenizer
Pop ==
    /\ pc = "loop"
    /\ unvisited_urls # <<>>
    /\ LET url == unvisited_urls[Len(unvisited_urls)]
           url_ser == UrlToString(url)
       IN  /\ unvisited_urls' = SubSeq(unvisited_urls, 1, Len(unvisited_urls) - 1)
           /\ IF ~is_visited(url)
              THEN \E response \in load_url(url_ser) :
                      /\ requests' = Append(requests,
                                            [url |-> url_ser, outcome |-> response])
                      /\ e2e' = (e2e /\ response = "utf8")
                      /\ IF response = "err"
                         THEN /\ pc' = "loop"
                              /\ page' = NoPage
                         ELSE visit(url_ser, response)
              ELSE UNCHANGED <<requests, e2e, pc, page>>
    /\ ntok' = 0
    /\ UNCHANGED <<base_url, visited_urls, publishes, graph, pushed, arg, result>>

\* the while loop ends: pop() returns None and crawl() returns
Return ==
    /\ pc = "loop"
    /\ unvisited_urls = <<>>
    /\ pc' = "done"
    /\ UNCHANGED <<base_url, visited_urls, unvisited_urls, page, ntok,
                   requests, publishes, graph, e2e, pushed, arg, result>>

Next == Crawl \/ ProcessToken \/ EndOfDocument \/ Pop \/ Return

Spec == Init /\ [][Next]_vars

\* the single thread of control always takes its next step
FairSpec == Spec /\ WF_vars(Next)

(***************************************************************************)
(* The link filter alone: Page::process_token on one anchor, for a wider   *)
(* choice of page URLs and href values than the crawl takes.               *)
(***************************************************************************)
\* "https://site.test/a"
HrefSiteA == Str("https", Some("site.test"), None, "/a", None)
\* "https://site.test/a#frag"
HrefSiteAFrag == Str("https", Some("site.test"), None, "/a", Some("frag"))
\* "http://site.test/a"
HrefHttpSiteA == Str("http", Some("site.test"), None, "/a", None)
\* "https://site.test:8080/a"
HrefPortA == Str("https", Some("site.test"), Some(8080), "/a", None)
\* "https://site.test:8080/"
HrefPortRoot == Str("https", Some("site.test"), Some(8080), "/", None)
\* "https://site.test:443/a" (the default port of https)
HrefDefaultPortA == Str("https", Some("site.test"), Some(443), "/a", None)
\* "ftp://site.test/a"
HrefFtpA == Str("ftp", Some("site.test"), None, "/a", None)
\* "javascript:x"
HrefJavascript == Str("javascript", None, None, "x", None)
\* "" (the empty reference)
HrefEmpty == Str("", None, None, "", None)
\* "/a#frag"
HrefAFrag == Str("", None, None, "/a", Some("frag"))
\* "https://sub.site.test/a"
HrefSub == Str("https", Some("sub.site.test"), None, "/a", None)
\* "http://1.1.1.1:8080/a"
HrefIp1Port == Str("http", Some("1.1.1.1"), Some(8080), "/a", None)
\* "https://blog.test/a"
HrefBlogA == Str("https", Some("blog.test"), None, "/a", None)

FilterHrefs ==
    Hrefs \cup {HrefSiteA, HrefSiteAFrag, HrefHttpSiteA, HrefPortA, HrefPortRoot,
                HrefDefaultPortA, HrefFtpA, HrefJavascript, HrefEmpty, HrefAFrag,
                HrefSub, HrefIp1Port, HrefBlogA}

\* the URL strings of the pages: what load_url can have fetched
FilterPages == {SeedSite, SeedBlogFrag, SeedIp, HrefSiteA, HrefHttpSiteA, HrefPortA}

\* a Page as read_response builds it, about to receive one anchor
FilterInit ==
    /\ \E p \in FilterPages : page = PageNew(UrlParse(p).val)
    /\ arg \in FilterHrefs
    /\ result = NoResult
    /\ pc = "filter"
    /\ base_url = NoArg
    /\ visited_urls = <<>>
    /\ unvisited_urls = <<>>
    /\ ntok = 0
    /\ requests = <<>>
    /\ publishes = <<>>
    /\ graph = {}
    /\ e2e = FALSE
    /\ pushed = {}

\* process_token(<a href=arg>): can_enqueue's value is kept in result
FilterApply ==
    /\ pc = "filter"
    /\ result' = can_enqueue(page, arg)
    /\ LET r == process_token(page, Anchor(arg)) IN
       /\ page' = r.page
       /\ pc' = IF r.panic THEN "panicked" ELSE "filtered"
    /\ ntok' = ntok + 1
    /\ UNCHANGED <<base_url, visited_urls, unvisited_urls, requests, publishes,
                   graph, e2e, pushed, arg>>

FilterNext == FilterApply

FilterSpec == FilterInit /\ [][FilterNext]_vars

(***************************************************************************)
(* The job envelope alone: one response is read into a Page with all its   *)
(* fields and the page is handed to the queue (read_response, visit_page,  *)
(* send_to_redis, to_json).                                                *)
(***************************************************************************)
\* str::to_ascii_lowercase on the header names used here
AsciiLower(name) ==
    CASE name = "Content-Type" -> "content-type"
      [] name = "ETag" -> "etag"
      [] OTHER -> name

\* the header loop of read_response: a map keyed by the lower-cased names,
\* a later insert replacing an earlier one
read_headers(hs) ==
    [n \in {AsciiLower(hs[i].name) : i \in DOMAIN hs} |->
        LET last == CHOOSE i \in DOMAIN hs :
                        /\ AsciiLower(hs[i].name) = n
                        /\ \A k \in DOMAIN hs : AsciiLower(hs[k].name) = n => k <= i
        IN  hs[last].value]

\* Page::new with every field; jid is what thread_rng() gave
page_new(url, document, headers, jid) ==
    [url |-> url, document |-> document, headers |-> headers, urls |-> <<>>,
     jid |-> jid]

\* as to_json, with url, document and headers pushed as three args
to_json_flat_args(pg, created_at, enqueued_at) ==
    [class |-> "Maman", retry |-> TRUE,
     args |-> <<UrlToString(pg.url), pg.document, pg.headers>>,
     jid |-> pg.jid, created_at |-> created_at, enqueued_at |-> enqueued_at]

\* impl ToJson for Page; the two now_utc() readings are parameters
to_json(pg, created_at, enqueued_at) ==
    [class |-> "Maman", retry |-> TRUE,
     args |-> <<[url |-> UrlToString(pg.url), document |-> pg.document,
                 headers |-> pg.headers]>>,
     jid |-> pg.jid, created_at |-> created_at, enqueued_at |-> enqueued_at]

Header(name, value) == [name |-> name, value |-> value]

\* header lists a response may carry (hyper keeps one entry per name)
JobHeaders ==
    {<<>>,
     <<Header("Content-Type", "text/html")>>,
     <<Header("ETag", "abc"), Header("Content-Type", "text/html")>>,
     <<Header("server", "maman")>>}

\* decoded bodies
JobBodies == {"", "<a href=\"/a\">x</a>"}

\* job ids thread_rng() may give (two of the 24-character strings)
Jids == {"jid-aaaaaaaaaaaaaaaaaaaa", "jid-bbbbbbbbbbbbbbbbbbbb"}

\* readings of the clock, in seconds
Clock == {1700000000, 1700000001}

\* the end tag </a>: a tag token without attributes
EndTagA == Tag("a", "", HrefEmpty)

\* the tokens the html5ever tokenizer makes of a decoded body
Tokenizer(document) ==
    CASE document = "" -> <<>>
      [] document = "<a href=\"/a\">x</a>" -> <<Anchor(HrefA), CharacterToken, EndTagA>>

\* Spider::read_page: the page after the tokenizer has fed it every token
\* of the document, or the panic of process_token
read_page(pg, tokens) ==
    LET fed[i \in 0..Len(tokens)] ==
            IF i = 0
            THEN [panic |-> FALSE, page |-> pg]
            ELSE IF fed[i - 1].panic
                 THEN fed[i - 1]
                 ELSE process_token(fed[i - 1].page, tokens[i])
    IN  fed[Len(tokens)]

\* a response for page_url is about to be visited
JobInit ==
    /\ arg \in [url : {SeedSite, SeedBlogFrag, HrefRoot}, headers : JobHeaders,
                body : JobBodies]
    /\ result = NoResult
    /\ pc = "job"
    /\ base_url = NoArg
    /\ page = NoPage
    /\ visited_urls = <<>>
    /\ unvisited_urls = <<>>
    /\ ntok = 0
    /\ requests = <<>>
    /\ publishes = <<>>
    /\ graph = {}
    /\ e2e = FALSE
    /\ pushed = {}

\* visit(page_url, response): read_response builds the page and feeds it
\* the document, visit_page records it and sends it to the queue; result
\* keeps the page and what lpush put on the queue.  The clock is read twice
\* by to_json, the readings in no fixed order
JobVisit ==
    /\ pc = "job"
    /\ \E jid \in Jids, redis_ok \in BOOLEAN, stdout_ok \in BOOLEAN,
          t1 \in Clock, t2 \in Clock :
       \E new \in {page_new(UrlParse(arg.url).val, arg.body,
                             read_headers(arg.headers), jid)} :
       \E read \in {read_page(new, Tokenizer(arg.body))} :
          IF read.panic
          THEN /\ pc' = "panicked"
               /\ UNCHANGED <<visited_urls, unvisited_urls, publishes,
                              pushed, result>>
          ELSE /\ visit_page(read.page, unvisited_urls, redis_ok, stdout_ok,
                               "job_done")
               /\ pushed' = pushed \cup {read.page.urls[i] : i \in DOMAIN read.page.urls}
               /\ result' = [page |-> read.page,
                             queue |-> IF redis_ok
                                       THEN <<to_json(read.page, t1, t2)>>
                                       ELSE <<>>]
    /\ UNCHANGED <<base_url, page, ntok, requests, graph, e2e, arg>>

JobNext == JobVisit

JobSpec == JobInit /\ [][JobNext]_vars

(***************************************************************************)
(* Two crawls side by side.  A crawl is a record of the Spider's fields,   *)
(* the position of crawl() and the two logs, and each step of crawl() is   *)
(* a function from the record and the environment's answer to the next     *)
(* record.  The two crawls start from the same seed and take their steps   *)
(* together; at each step the HTTP client and the document give both the   *)
(* same answer, standard output is in the same condition for both, and     *)
(* the queue answers each on its own.                                      *)
(***************************************************************************)
\* the end of the document, where the tokenizer hands a token otherwise
EndOfFile == [kind |-> "eof", name |-> "", attr |-> "", value |-> HrefA]

\* what the HTTP client may be made to answer
Responses == {"utf8", "not_utf8", "err"}

\* Spider::new, and crawl() not yet called
run_new ==
    [pc |-> "idle", page |-> NoPage, ntok |-> 0, visited_urls |-> <<>>,
     unvisited_urls |-> <<>>, requests |-> <<>>, publishes |-> <<>>]

\* the fields of a crawl record as the crawl of Spec holds them
run_of(p, pg, n, visited, unvisited, reqs, pubs) ==
    [pc |-> p, page |-> pg, ntok |-> n, visited_urls |-> visited,
     unvisited_urls |-> unvisited, requests |-> reqs, publishes |-> pubs]

\* Spider::load_url: the client's answer, if the URL string can be requested
run_load_url(s, response) == IF response \in load_url(s) THEN response ELSE "err"

\* Spider::visit up to the tokenizer
run_visit(run, page_url, response) ==
    LET r == UrlParse(page_url) IN
    IF r.ok /\ response = "utf8"
    THEN [run EXCEPT !.page = PageNew(r.val), !.pc = "read_page"]
    ELSE [run EXCEPT !.page = NoPage, !.pc = "loop"]

\* the document ends: Spider::visit_page on the page read; the println! of
\* a failed publish panics when standard output cannot be written
run_visit_page(run, redis_ok, stdout_ok) ==
    [run EXCEPT
        !.visited_urls = Append(@, run.page.url),
        !.unvisited_urls = add_unvisited_urls(@, run.page.urls),
        !.publishes = Append(@, [url |-> run.page.url, ok |-> redis_ok]),
        !.pc = IF redis_ok \/ stdout_ok THEN "loop" ELSE "panicked",
        !.page = NoPage,
        !.ntok = 0]

\* crawl(), first half
run_crawl(run, response) ==
    LET answer == run_load_url(base_url, response)
        asked == [run EXCEPT
                     !.requests = Append(@, [url |-> base_url, outcome |-> answer]),
                     !.ntok = 0]
    IN  IF answer = "err"
        THEN [asked EXCEPT !.pc = "done", !.page = NoPage]
        ELSE run_visit(asked, base_url, answer)

\* the tokenizer hands the page one token
run_tokenize(run, token) ==
    LET r == process_token(run.page, token) IN
    IF r.panic
    THEN [run EXCEPT !.pc = "panicked", !.page = NoPage, !.ntok = @ + 1]
    ELSE [run EXCEPT !.page = r.page, !.ntok = @ + 1]

\* one iteration of the while loop, or its end
run_pop(run, response) ==
    IF run.unvisited_urls = <<>>
    THEN [run EXCEPT !.pc = "done"]
    ELSE LET url == run.unvisited_urls[Len(run.unvisited_urls)]
             url_ser == UrlToString(url)
             answer == run_load_url(url_ser, response)
             popped == [run EXCEPT
                           !.unvisited_urls = SubSeq(@, 1, Len(@) - 1),
                           !.ntok = 0]
             asked == [popped EXCEPT
                          !.requests = Append(@, [url |-> url_ser, outcome |-> answer])]
         IN  IF \E i \in DOMAIN run.visited_urls : run.visited_urls[i] = url
             THEN popped
             ELSE IF answer = "err"
                  THEN [asked EXCEPT !.pc = "loop", !.page = NoPage]
                  ELSE run_visit(asked, url_ser, answer)

\* the next step of crawl() from where the crawl stands
run_step(run, response, token, redis_ok, stdout_ok) ==
    CASE run.pc = "idle" -> run_crawl(run, response)
      [] run.pc = "read_page" /\ token = EndOfFile ->
            run_visit_page(run, redis_ok, stdout_ok)
      [] run.pc = "read_page" /\ token # EndOfFile -> run_tokenize(run, token)
      [] run.pc = "loop" -> run_pop(run, response)
      [] OTHER -> run

\* the step is one the crawl can take (documents are bounded as in Spec)
run_can_step(run, token) ==
    /\ run.pc \in {"idle", "read_page", "loop"}
    /\ (run.pc = "read_page" /\ token # EndOfFile) => run.ntok < MaxTokens

TwoRunInit ==
    /\ base_url \in Seeds
    /\ arg = run_new
    /\ result = run_new
    /\ pc = "two_runs"
    /\ page = NoPage
    /\ visited_urls = <<>>
    /\ unvisited_urls = <<>>
    /\ ntok = 0
    /\ requests = <<>>
    /\ publishes = <<>>
    /\ graph = {}
    /\ e2e = FALSE
    /\ pushed = {}

\* both crawls take their next step on the same answer of the client and
\* the same token of the document, with standard output writable for both
\* or for neither, each with its own answer of the queue
TwoRunStep ==
    /\ pc = "two_runs"
    /\ \E response \in Responses, token \in Tokens \cup {EndOfFile},
          stdout_ok \in BOOLEAN, ok1 \in BOOLEAN, ok2 \in BOOLEAN :
          /\ run_can_step(arg, token) \/ run_can_step(result, token)
          /\ arg' = IF run_can_step(arg, token)
                    THEN run_step(arg, response, token, ok1, stdout_ok) ELSE arg
          /\ result' = IF run_can_step(result, token)
                       THEN run_step(result, response, token, ok2, stdout_ok)
                       ELSE result
    /\ UNCHANGED <<base_url, visited_urls, unvisited_urls, pc, page, ntok,
                   requests, publishes, graph, e2e, pushed>>

TwoRunNext == TwoRunStep

TwoRunSpec == TwoRunInit /\ [][TwoRunNext]_vars

(***************************************************************************)
(* Properties.                                                             *)
(***************************************************************************)
Range(seq) == {seq[i] : i \in DOMAIN seq}

NoDuplicates(seq) == \A i, j \in DOMAIN seq : i # j => seq[i] # seq[j]

\* the seed as read_response parses it
SeedUrl == UrlParse(base_url).val

\* every load_url so far gave a response whose body decoded
AllFetched == \A i \in DOMAIN requests : requests[i].outcome = "utf8"

\* the URLs reachable from the set S along the edges of the link graph
RECURSIVE Reach(_)
Reach(S) ==
    LET N == S \cup {e[2] : e \in {d \in graph : d[1] \in S}} IN
    IF N = S THEN S ELSE Reach(N)

\* "https://site.test/a", the URL the scenario's /a link names
UrlSiteA == Url("https", Some(HostParse("site.test")), None, "/a", None)

\* C1: during a crawl started on a fresh Spider, visited_urls never holds a
\* URL twice, whatever the link graph and the fetch, decode and publish
\* outcomes are.
C1_VisitedOnce == NoDuplicates(visited_urls)

\* C1 witness: both pages of a cyclic site are visited and a visited URL is
\* still waiting on the stack.
C1_Witness ==
    /\ Len(visited_urls) = 2
    /\ \E i \in DOMAIN unvisited_urls : is_visited(unvisited_urls[i])

\* C2 (as claimed): crawl() never stops before Done, and it is Done only
\* with unvisited empty: in every state the crawl is Done or has a next
\* step, and Done implies that unvisited_urls is empty.
C2_Terminates ==
    /\ pc = "done" \/ ENABLED Next
    /\ pc = "done" => unvisited_urls = <<>>

\* C3 (as claimed): when every fetch and decode succeeded, at Done the
\* URLs in visited_urls are exactly the URLs reachable from the seed along
\* eligible links (http/https, same host component, not the linking page
\* with or without a fragment), each once.
C3_VisitedIsReachable ==
    (pc = "done" /\ AllFetched) =>
        /\ Range(visited_urls) = Reach({SeedUrl})
        /\ NoDuplicates(visited_urls)

\* C4: in the end-to-end scenario (seed https://site.test/ with the links
\* /a, https://other.test/b and #frag in that order, empty bodies
\* afterwards, every fetch successful) nothing but https://site.test/a is
\* ever pushed, nothing but the seed and /a is ever fetched, and at Done
\* visited is [seed, /a] with exactly two pages handed to the queue.
C4_EndToEnd ==
    e2e =>
        /\ \A u \in Range(unvisited_urls) \cup Range(page.urls) : u = UrlSiteA
        /\ \A i \in DOMAIN requests :
              requests[i].url \in {SeedSite, UrlToString(UrlSiteA)}
        /\ pc = "done" =>
              /\ visited_urls = <<SeedUrl, UrlSiteA>>
              /\ Len(publishes) = 2
              /\ \A i \in DOMAIN publishes : publishes[i].url = visited_urls[i]

\* C4 witness: the scenario has run to Done.
C4_Witness == e2e /\ pc = "done" /\ Len(requests) = 2

\* C5 (as claimed): a failed fetch is never retried: no load_url call is
\* made for a URL after a load_url call for that URL has failed.
C5_NoRetry ==
    \A i, j \in DOMAIN requests :
        (i < j /\ requests[i].outcome = "err") => requests[j].url # requests[i].url

\* C6 (as claimed): a failed publish is not fatal: the step whose send_to_redis fails
\* still appends the page URL to visited and the page's links to unvisited
\* (the page URL not among them) and leaves crawl() in its loop; the URL
\* stays in visited, and the loop always has a next step until Done.
C6_PublishFailureNotFatal ==
    /\ [][(/\ Len(publishes') = Len(publishes) + 1
           /\ ~publishes'[Len(publishes')].ok)
          => /\ visited_urls' = Append(visited_urls, page.url)
             /\ unvisited_urls' = unvisited_urls \o page.urls
             /\ page.url \notin Range(page.urls)
             /\ pc' = "loop"]_vars
    /\ [](\A i \in DOMAIN publishes : publishes[i].url \in Range(visited_urls))
    /\ [](pc = "loop" => ENABLED (Pop \/ Return))

\* C7: if the fetch of the seed fails, crawl() is Done at once: nothing is
\* visited, unvisited is empty, no other URL is fetched, nothing published.
C7_SeedFetchFailure ==
    (requests # <<>> /\ requests[1].outcome = "err") =>
        /\ pc = "done"
        /\ visited_urls = <<>>
        /\ unvisited_urls = <<>>
        /\ requests = <<[url |-> base_url, outcome |-> "err"]>>
        /\ publishes = <<>>

\* C7 witness: the fetch of a well-formed http seed has failed.
C7_Witness ==
    /\ base_url = SeedSite
    /\ requests # <<>>
    /\ requests[1].outcome = "err"
    /\ pc = "done"

\* C8 (as claimed): every URL in visited and unvisited has no fragment, for
\* every seed, and no two visited URLs differ in their fragment only.
C8_FragmentStripped ==
    /\ \A u \in Range(visited_urls) \cup Range(unvisited_urls) : u.fragment = None
    /\ \A u, v \in Range(visited_urls) :
          SetFragmentNone(u) = SetFragmentNone(v) => u = v

\* C9 (as claimed): every URL in visited and unvisited has the host of the
\* seed, and every load_url call is for a URL with the host of the seed.
C9_SameHost ==
    /\ \A u \in Range(visited_urls) \cup Range(unvisited_urls) :
          UrlHostStr(u) = UrlHostStr(SeedUrl)
    /\ \A i \in DOMAIN requests :
          UrlHostStr(UrlParse(requests[i].url).val) = UrlHostStr(SeedUrl)

\* an href that is no URL: parsing it fails, and resolving it against the
\* page URL fails or does not apply
Unresolvable(p, s) ==
    /\ ~UrlParse(s).ok
    /\ s.scheme # "" \/ ~UrlJoin(p, s).ok

\* C10 (as claimed): an anchor whose href cannot be turned into a URL adds
\* nothing to the page's outbound list and the tokenizer goes on with the
\* document: no panic.
C10_UnresolvableDropped ==
    [][\A s \in Hrefs :
          (Unresolvable(page.url, s) /\ Tokenize(Anchor(s)))
              => (pc' = "read_page" /\ page'.urls = page.urls)]_vars

\* C11 (as claimed): for every page URL and href, can_enqueue returns the
\* resolved, fragment-stripped candidate, and process_token appends it, if
\* and only if its scheme is http or https, it is not the page URL and its
\* domain is the page URL's; in every other case it returns None and
\* nothing is appended.
C11_EligibilityExact ==
    pc \in {"filtered", "panicked"} =>
        LET c == Candidate(page.url, arg) IN
        IF c # None /\ Eligible(page.url, c[1])
        THEN result = Returns(c) /\ page.urls = <<c[1]>>
        ELSE result = Returns(None) /\ page.urls = <<>>

\* C12: every job envelope handed to the queue has class "Maman", retry
\* true, args a list of exactly one object holding the string form of the
\* page URL, the page body and the page's header mapping (the response
\* headers under lower-cased names), and as jid the job id generated when
\* the page was constructed.
C12_Envelope ==
    pc = "job_done" =>
        \A i \in DOMAIN result.queue :
            LET job == result.queue[i]
                pg == result.page
            IN  /\ job.class = "Maman"
                /\ job.retry = TRUE
                /\ Len(job.args) = 1
                /\ job.args[1].url = UrlToString(UrlParse(arg.url).val)
                /\ job.args[1].document = arg.body
                /\ job.args[1].headers = pg.headers
                /\ DOMAIN pg.headers =
                       {AsciiLower(arg.headers[k].name) : k \in DOMAIN arg.headers}
                /\ \A k \in DOMAIN arg.headers :
                       pg.headers[AsciiLower(arg.headers[k].name)] = arg.headers[k].value
                /\ job.jid = pg.jid

\* C12 witness: a page with two mixed-case headers and a body was handed to
\* the queue.
C12_Witness ==
    /\ pc = "job_done"
    /\ result.queue # <<>>
    /\ Len(arg.headers) = 2
    /\ arg.body # ""
    /\ visited_urls = <<result.page.url>>
    /\ unvisited_urls = result.page.urls
    /\ unvisited_urls # <<>>

Last(seq) == seq[Len(seq)]

Front(seq) == SubSeq(seq, 1, Len(seq) - 1)

\* C13 (as claimed): at Done, every URL for which a fetch was attempted,
\* whether it succeeded or failed, is an element of visited.
C13_AttemptedIsVisited ==
    pc = "done" =>
        \A i \in DOMAIN requests :
            UrlParse(requests[i].url).ok =>
                UrlParse(requests[i].url).val \in Range(visited_urls)

\* C14: the frontier is a stack.  Each iteration of the loop removes the last
\* element of unvisited and leaves the rest in place, the URL it considers
\* (and fetches, unless visited) is that element, and a visited page's
\* outbound list goes on top of what the stack held, so that the next URL
\* considered after a page with outbound list [u1, ..., un] is un and
\* earlier pushes wait beneath later ones.
C14_Lifo ==
    [][/\ (pc = "loop" /\ unvisited_urls # <<>>) =>
            /\ unvisited_urls' = Front(unvisited_urls)
            /\ requests' # requests =>
                   /\ Front(requests') = requests
                   /\ Last(requests').url = UrlToString(Last(unvisited_urls))
            /\ requests' = requests => Last(unvisited_urls) \in Range(visited_urls)
       /\ (pc = "read_page" /\ publishes' # publishes) =>
            /\ Len(unvisited_urls') = Len(unvisited_urls) + Len(page.urls)
            /\ SubSeq(unvisited_urls', 1, Len(unvisited_urls)) = unvisited_urls
            /\ page.urls # <<>> => Last(unvisited_urls') = Last(page.urls)
      ]_vars

\* C14 witness: /a was pushed twice by the seed page, one copy was popped
\* and visited and pushed the seed URL, which has been popped while the
\* older copy of /a still waits.
C14_Witness ==
    /\ pc = "loop"
    /\ visited_urls = <<SeedUrl, UrlSiteA>>
    /\ unvisited_urls = <<UrlSiteA>>
    /\ SeedUrl \in pushed

\* C15: visit_page appends page.url to the end of visited and the whole of
\* page.urls, in order and with every occurrence, to the end of unvisited;
\* what the two held before stays as it was.
C15_VisitPageAppends ==
    [][(pc = "read_page" /\ publishes' # publishes) =>
            /\ visited_urls' = Append(visited_urls, page.url)
            /\ unvisited_urls' = unvisited_urls \o page.urls
      ]_vars

\* C15 witness: visit_page has pushed the same URL twice, and a URL that was
\* already visited, on top of an older entry.
C15_Witness ==
    /\ pc = "loop"
    /\ visited_urls = <<SeedUrl, UrlSiteA>>
    /\ unvisited_urls = <<UrlSiteA, SeedUrl, SeedUrl>>

\* C16: when a fetch succeeds and the body cannot be decoded, no page is
\* built: the step leaves visited and the queue as they were, pushes nothing
\* onto unvisited, and the crawl is back at the head of its loop.
C16_UndecodableDropped ==
    [][(requests' # requests /\ Last(requests').outcome = "not_utf8") =>
            /\ visited_urls' = visited_urls
            /\ publishes' = publishes
            /\ pushed' = pushed
            /\ \/ unvisited_urls' = unvisited_urls
               \/ unvisited_urls' = Front(unvisited_urls)
            /\ page' = NoPage
            /\ pc' = "loop"
      ]_vars

\* C16 witness: a body that could not be decoded was followed by the fetch
\* of the next unvisited URL, and the crawl has ended.
C16_Witness ==
    /\ pc = "done"
    /\ \E i \in DOMAIN requests : requests[i].outcome = "not_utf8" /\ i < Len(requests)

\* C17: the domain check ignores the port.  For a page URL and an href that
\* parses to an http or https URL with the same host and another port (with
\* the same path or another one), the href is eligible: can_enqueue returns
\* it and process_token appends it to the page's outbound list.
C17_PortIgnored ==
    pc = "filtered" =>
        LET r == UrlParse(arg)
            c == SetFragmentNone(r.val)
        IN  (/\ r.ok
             /\ c.scheme \in {"http", "https"}
             /\ UrlHostStr(c) = UrlHostStr(page.url)
             /\ c.port # page.url.port)
            => /\ result = Returns(Some(c))
               /\ page.urls = <<c>>

\* C17 witness: on the page https://site.test/a, the href
\* https://site.test:8080/a (port only) has been appended.
C17_Witness ==
    /\ pc = "filtered"
    /\ page.url = UrlSiteA
    /\ arg = HrefPortA
    /\ Len(page.urls) = 1

\* C18: between two iterations of the loop (and at the end), the page URLs
\* for which a publish was attempted, in order, are the visited sequence.
C18_PublishPerVisit ==
    pc \in {"loop", "done"} =>
        /\ Len(publishes) = Len(visited_urls)
        /\ \A i \in DOMAIN publishes : publishes[i].url = visited_urls[i]

\* C18 witness: two pages visited, among them one without outbound links,
\* one publish failed and one succeeded.
C18_Witness ==
    /\ pc = "loop"
    /\ Len(visited_urls) = 2
    /\ unvisited_urls = <<UrlSiteA>>
    /\ \E i, j \in DOMAIN publishes : publishes[i].ok /\ ~publishes[j].ok

\* C19: at Done, every URL that was ever pushed onto unvisited is in visited
\* or had a fetch that failed or gave a body that could not be decoded.
C19_NoLinkLost ==
    pc = "done" =>
        \A u \in pushed :
            \/ u \in Range(visited_urls)
            \/ \E i \in DOMAIN requests :
                  /\ requests[i].url = UrlToString(u)
                  /\ requests[i].outcome \in {"err", "not_utf8"}

\* C19 witness: the crawl ended with a pushed URL visited, after an earlier
\* copy of it had failed to load.
C19_Witness ==
    /\ pc = "done"
    /\ UrlSiteA \in pushed
    /\ UrlSiteA \in Range(visited_urls)
    /\ \E i \in DOMAIN requests :
          requests[i].url = UrlToString(UrlSiteA) /\ requests[i].outcome = "err"

\* the crawl of Spec as a crawl record
ThisRun ==
    run_of(pc, page, ntok, visited_urls, unvisited_urls, requests, publishes)

\* every step of the crawl of Spec is the step run_step computes from the
\* same record for some answer of the environment
RunStepIsNext ==
    [][\E response \in Responses, token \in Tokens \cup {EndOfFile},
          redis_ok \in BOOLEAN, stdout_ok \in BOOLEAN :
          /\ run_can_step(ThisRun, token)
          /\ ThisRun' = run_step(ThisRun, response, token, redis_ok, stdout_ok)
      ]_vars

\* C20 (as claimed): two crawls of the same seed that get the same fetch
\* and decode results and the same documents, and whatever publish results
\* each, are at every step at the same position with the same sequence of
\* fetches, the same visited and the same unvisited; where they end,
\* unvisited is empty.
C20_PublishDoesNotSteer ==
    pc = "two_runs" =>
        /\ arg.pc = result.pc
        /\ arg.requests = result.requests
        /\ arg.visited_urls = result.visited_urls
        /\ arg.unvisited_urls = result.unvisited_urls
        /\ arg.pc = "done" => arg.unvisited_urls = <<>> /\ result.unvisited_urls = <<>>

=============================================================================
